---- MODULE Spec2Model ----
(***************************************************************************)
(* Model of the secure-messaging notebook: the two encryption handlers     *)
(* (Fernet, RSA-OAEP) and the User class with its per-peer table `keys`.   *)
(*                                                                         *)
(* The cryptography library is modelled by what its primitives do:         *)
(*   - key generation returns fresh material (a counter stands for the     *)
(*     random bytes; two generated keys never coincide);                   *)
(*   - a ciphertext records the key it was made under, the bytes it        *)
(*     protects and the random IV/seed drawn at encryption;                *)
(*   - decryption succeeds exactly when the decryption key matches the     *)
(*     key the ciphertext was made under and raises otherwise;             *)
(*   - RSA-OAEP refuses data longer than key_size/8 - 2*hLen - 2 bytes.    *)
(* str.encode / bytes.decode are UTF-8 (code points below 2048).           *)
(***************************************************************************)
EXTENDS Integers, Sequences, FiniteSets, TLC

VARIABLES keys, nextKey, op, out, exc, thr, hs, lastCall, prevCall

vars == <<keys, nextKey, op, out, exc, thr, hs, lastCall, prevCall>>

(***************************************************************************)
(* Bounds and program constants                                            *)
(***************************************************************************)
\* handlers (hence generated keys) the run may create
MaxKey == 4

NumNonces == 2

\* handlers constructed directly, outside any User
MaxHandlers == 2

KeySize == 2048

Sha256DigestSize == 32

Users == {"Alice", "Bob", "Carol"}

Threads == {"t1", "t2"}

EncryptionTypes == {"symmetric", "asymmetric", "rot13"}

Nonces == 1..NumNonces

OaepMaxLength == (KeySize \div 8) - 2 * Sha256DigestSize - 2

(***************************************************************************)
(* Python values                                                           *)
(***************************************************************************)
None == [kind |-> "None", n |-> 0]

\* b""
EmptyBytes == [kind |-> "empty_bytes", n |-> 0]

Truthy(v) == v.kind \notin {"None", "empty_bytes"}

PyOr(a, b) == IF Truthy(a) THEN a ELSE b

UserId(u) == <<"uuid4", u>>

\* assignment that rebinds the table to a dict holding the one entry
DictSet_replace(d, k, v) == [x \in {k} |-> v]

\* d[k] = v
DictSet(d, k, v) == [x \in (DOMAIN d) \cup {k} |-> IF x = k THEN v ELSE d[x]]

EmptyDict == [x \in {} |-> None]

(***************************************************************************)
(* str.encode() and bytes.decode(): UTF-8.  A text is a sequence of runs   *)
(* [cp, count] (count repetitions of the code point cp) and a byte string  *)
(* a sequence of runs [unit, count] (count repetitions of the bytes unit), *)
(* so that a long value of either kind stays a short sequence.             *)
(***************************************************************************)
EncodeChar(cp) ==
    IF cp < 128 THEN <<cp>>
    ELSE <<192 + (cp \div 64), 128 + (cp % 64)>>

\* str.encode(): every character replaced by its encoding
Encode(text) ==
    [i \in 1..Len(text) |-> [unit |-> EncodeChar(text[i].cp), count |-> text[i].count]]

\* len(bytes)
RECURSIVE ByteLength(_)
ByteLength(bytes) ==
    IF bytes = <<>> THEN 0
    ELSE Len(Head(bytes).unit) * Head(bytes).count + ByteLength(Tail(bytes))

IsContinuation(b) == b >= 128 /\ b < 192

IsLead2(b) == b >= 194 /\ b < 224

\* the unit is the encoding of one character
WellFormed(unit) ==
    \/ Len(unit) = 1 /\ unit[1] < 128
    \/ Len(unit) = 2 /\ IsLead2(unit[1]) /\ IsContinuation(unit[2])

CodePoint(unit) ==
    IF Len(unit) = 1 THEN unit[1]
    ELSE (unit[1] - 192) * 64 + (unit[2] - 128)

\* bytes.decode(): [exc, value], the text or UnicodeDecodeError on malformed bytes
Decode(bytes) ==
    IF \E i \in 1..Len(bytes) : ~WellFormed(bytes[i].unit)
    THEN [exc |-> "UnicodeDecodeError", value |-> <<>>]
    ELSE [exc |-> "none",
          value |-> [i \in 1..Len(bytes) |->
                        [cp |-> CodePoint(bytes[i].unit), count |-> bytes[i].count]]]

(***************************************************************************)
(* Library primitives                                                      *)
(***************************************************************************)
\* key generation that returns the same key every time
FernetGenerateKey_fixed(n) == [kind |-> "fernet_key", n |-> 0]

\* Fernet.generate_key(): fresh random key material
FernetGenerateKey(n) == [kind |-> "fernet_key", n |-> n]

\* rsa.generate_private_key(public_exponent=65537, key_size=2048)
RsaGeneratePrivateKey(n) == [kind |-> "rsa_private", n |-> n]

\* private_key.public_key()
PublicKeyOf(priv) == [kind |-> "rsa_public", n |-> priv.n]

Garbage == [kind |-> "garbage", n |-> 0, data |-> <<>>, iv |-> 0]

\* Fernet(key).encrypt(data)
FernetEncrypt(key, data, iv) ==
    IF key.kind # "fernet_key"
    THEN [exc |-> "ValueError", value |-> Garbage]
    ELSE [exc |-> "none",
          value |-> [kind |-> "fernet_token", n |-> key.n, data |-> data, iv |-> iv]]

\* Fernet decryption that skips the authentication check
FernetDecrypt_unauthenticated(key, token) ==
    IF token.kind = "fernet_token"
    THEN [exc |-> "none", value |-> token.data]
    ELSE [exc |-> "InvalidToken", value |-> <<>>]

\* Fernet(key).decrypt(token)
FernetDecrypt(key, token) ==
    IF key.kind # "fernet_key"
    THEN [exc |-> "ValueError", value |-> <<>>]
    ELSE IF token.kind = "fernet_token" /\ token.n = key.n
         THEN [exc |-> "none", value |-> token.data]
    ELSE [exc |-> "InvalidToken", value |-> <<>>]

\* public_key.encrypt(data, OAEP(MGF1(SHA256), SHA256))
RsaEncrypt(key, data, seed) ==
    IF key.kind # "rsa_public"
    THEN [exc |-> "AttributeError", value |-> Garbage]
    ELSE IF ByteLength(data) > OaepMaxLength
         THEN [exc |-> "ValueError", value |-> Garbage]
    ELSE [exc |-> "none",
          value |-> [kind |-> "rsa_ciphertext", n |-> key.n, data |-> data, iv |-> seed]]

\* RSA decryption that accepts a ciphertext made for any key
RsaDecrypt_any_key(priv, ct) ==
    IF ct.kind = "rsa_ciphertext"
    THEN [exc |-> "none", value |-> ct.data]
    ELSE [exc |-> "ValueError", value |-> <<>>]

\* private_key.decrypt(ciphertext, OAEP(MGF1(SHA256), SHA256))
RsaDecrypt(priv, ct) ==
    IF ct.kind = "rsa_ciphertext" /\ ct.n = priv.n
    THEN [exc |-> "none", value |-> ct.data]
    ELSE [exc |-> "ValueError", value |-> <<>>]

(***************************************************************************)
(* SymmetricEncryptionHandler and AsymmetricEncryptionHandler              *)
(***************************************************************************)
SymmetricEncryptionHandler(key, n) ==
    [cls |-> "symmetric", oid |-> n,
     key |-> PyOr(key, FernetGenerateKey(n)),
     private_key |-> None, public_key |-> None]

\* constructor whose public key is not the one of its private key
AsymmetricEncryptionHandler_unlinked(n) ==
    [cls |-> "asymmetric", oid |-> n, key |-> None,
     private_key |-> RsaGeneratePrivateKey(n),
     public_key |-> PublicKeyOf(RsaGeneratePrivateKey(0))]

AsymmetricEncryptionHandler(n) ==
    [cls |-> "asymmetric", oid |-> n,
     key |-> None,
     private_key |-> RsaGeneratePrivateKey(n),
     public_key |-> PublicKeyOf(RsaGeneratePrivateKey(n))]

\* accessor that hands out the private key of an asymmetric handler
get_encryption_key_private(h) ==
    IF h.cls = "symmetric" THEN h.key ELSE h.private_key

get_encryption_key(h) == IF h.cls = "symmetric" THEN h.key ELSE h.public_key

get_decryption_key(h) == IF h.cls = "symmetric" THEN h.key ELSE h.private_key

\* [exc, value]: the ciphertext, or the exception the call raises
encrypt_message(h, message, key, iv) ==
    IF h.cls = "symmetric"
    THEN FernetEncrypt(PyOr(key, h.key), Encode(message), iv)
    ELSE RsaEncrypt(PyOr(key, h.public_key), Encode(message), iv)

\* [exc, value]: the plaintext, or the exception the call raises
decrypt_message(h, encrypted_message) ==
    LET d == IF h.cls = "symmetric"
             THEN FernetDecrypt(h.key, encrypted_message)
             ELSE RsaDecrypt(h.private_key, encrypted_message)
    IN  IF d.exc # "none" THEN d ELSE Decode(d.value)

(***************************************************************************)
(* Observation of one call: `op` is the call, `out` the lines it printed   *)
(* and the calls and stores it made, in order, `exc` the exception it      *)
(* raised to its caller ("none" when it returned).                         *)
(***************************************************************************)
Ev(e, a, b, x) == [ev |-> e, a |-> a, b |-> b, x |-> x]

Op(name, self, user, arg) == [name |-> name, self |-> self, user |-> user, arg |-> arg]

NoOp == Op("none", "nobody", "nobody", None)

Entry(handler, key) == [my_encryption_handler |-> handler, encryption_key |-> key]

NoHandler ==
    [cls |-> "none", oid |-> 0, key |-> None, private_key |-> None, public_key |-> None]

Hello == <<[cp |-> 72, count |-> 1], [cp |-> 233, count |-> 1]>>

LongMessage == <<[cp |-> 97, count |-> OaepMaxLength + 1]>>

Messages == {Hello, LongMessage}

(***************************************************************************)
(* class User                                                              *)
(***************************************************************************)
\* one handler per variant, handed to every caller
NewHandler_singleton(encryption_type, n) ==
    IF encryption_type = "symmetric"
    THEN SymmetricEncryptionHandler(None, 0)
    ELSE AsymmetricEncryptionHandler(0)

\* my_encryption_handler = SymmetricEncryptionHandler() / AsymmetricEncryptionHandler()
NewHandler(encryption_type, n) ==
    IF encryption_type = "symmetric"
    THEN SymmetricEncryptionHandler(None, n)
    ELSE AsymmetricEncryptionHandler(n)

\* acceptance that keeps the handler of an entry it already holds (a merge)
receive_key_for_user_merge(ks, nk, self, user, user_encryption_key, encryption_type) ==
    IF encryption_type \notin {"symmetric", "asymmetric"}
    THEN [exc |-> "ValueError", keys |-> ks, nextKey |-> nk, ret |-> None, out |-> <<>>]
    ELSE LET handler == IF UserId(user) \in DOMAIN ks[self]
                        THEN ks[self][UserId(user)].my_encryption_handler
                        ELSE NewHandler(encryption_type, nk)
             entry == Entry(handler, user_encryption_key)
         IN  [exc |-> "none",
              keys |-> [ks EXCEPT ![self] = DictSet(@, UserId(user), entry)],
              nextKey |-> nk + 1,
              ret |-> get_encryption_key(handler),
              out |-> <<Ev("print_received_key", self, user, None),
                        Ev("store", self, user, entry)>>]

\* acceptance that answers with its key but stores no entry
receive_key_for_user_no_store(ks, nk, self, user, user_encryption_key, encryption_type) ==
    IF encryption_type \notin {"symmetric", "asymmetric"}
    THEN [exc |-> "ValueError", keys |-> ks, nextKey |-> nk, ret |-> None, out |-> <<>>]
    ELSE [exc |-> "none", keys |-> ks, nextKey |-> nk + 1,
          ret |-> get_encryption_key(NewHandler(encryption_type, nk)),
          out |-> <<Ev("print_received_key", self, user, None)>>]

\* symmetric acceptance that adopts the initiator's key as its own
receive_key_for_user_shared_key(ks, nk, self, user, user_encryption_key, encryption_type) ==
    IF encryption_type \notin {"symmetric", "asymmetric"}
    THEN [exc |-> "ValueError", keys |-> ks, nextKey |-> nk, ret |-> None, out |-> <<>>]
    ELSE LET handler == IF encryption_type = "symmetric"
                        THEN SymmetricEncryptionHandler(user_encryption_key, nk)
                        ELSE AsymmetricEncryptionHandler(nk)
             entry == Entry(handler, user_encryption_key)
         IN  [exc |-> "none",
              keys |-> [ks EXCEPT ![self] = DictSet(@, UserId(user), entry)],
              nextKey |-> nk + 1,
              ret |-> get_encryption_key(handler),
              out |-> <<Ev("print_received_key", self, user, None),
                        Ev("store", self, user, entry)>>]

\* acceptance that builds a symmetric handler whatever variant is asked for
receive_key_for_user_symmetric(ks, nk, self, user, user_encryption_key, encryption_type) ==
    IF encryption_type \notin {"symmetric", "asymmetric"}
    THEN [exc |-> "ValueError", keys |-> ks, nextKey |-> nk, ret |-> None, out |-> <<>>]
    ELSE LET handler == NewHandler("symmetric", nk)
             entry == Entry(handler, user_encryption_key)
         IN  [exc |-> "none",
              keys |-> [ks EXCEPT ![self] = DictSet(@, UserId(user), entry)],
              nextKey |-> nk + 1,
              ret |-> get_encryption_key(handler),
              out |-> <<Ev("print_received_key", self, user, None),
                        Ev("store", self, user, entry)>>]

\* User.__receive_key_for_user: [exc, keys, nextKey, ret, out]
receive_key_for_user(ks, nk, self, user, user_encryption_key, encryption_type) ==
    IF encryption_type \notin {"symmetric", "asymmetric"}
    THEN [exc |-> "ValueError", keys |-> ks, nextKey |-> nk, ret |-> None, out |-> <<>>]
    ELSE LET handler == NewHandler(encryption_type, nk)
             entry == Entry(handler, user_encryption_key)
         IN  [exc |-> "none",
              keys |-> [ks EXCEPT ![self] = DictSet(@, UserId(user), entry)],
              nextKey |-> nk + 1,
              ret |-> get_encryption_key(handler),
              out |-> <<Ev("print_received_key", self, user, None),
                        Ev("store", self, user, entry)>>]

\* exchange that stores its own key in place of the key the peer returned
send_key_to_user_own_key(ks, nk, self, user, encryption_type) ==
    IF encryption_type \notin {"symmetric", "asymmetric"}
    THEN [exc |-> "ValueError", keys |-> ks, nextKey |-> nk, out |-> <<>>]
    ELSE LET handler == NewHandler(encryption_type, nk)
             my_encryption_key == get_encryption_key(handler)
             r == receive_key_for_user(ks, nk + 1, user, self,
                                       my_encryption_key, encryption_type)
             entry == Entry(handler, my_encryption_key)
         IN  [exc |-> "none",
              keys |-> [r.keys EXCEPT ![self] = DictSet(@, UserId(user), entry)],
              nextKey |-> r.nextKey,
              out |-> <<Ev("print_send_key", self, user, None),
                        Ev("call_receive_key", user, self, my_encryption_key)>>
                      \o r.out
                      \o <<Ev("print_got_key", self, user, None),
                           Ev("store", self, user, entry)>>]

\* exchange that falls back to the symmetric variant on an unknown tag
send_key_to_user_fallback(ks, nk, self, user, encryption_type) ==
    LET type == IF encryption_type = "asymmetric" THEN "asymmetric" ELSE "symmetric"
        handler == NewHandler(type, nk)
        my_encryption_key == get_encryption_key(handler)
        r == receive_key_for_user(ks, nk + 1, user, self, my_encryption_key, type)
        entry == Entry(handler, r.ret)
    IN  [exc |-> "none",
         keys |-> [r.keys EXCEPT ![self] = DictSet(@, UserId(user), entry)],
         nextKey |-> r.nextKey,
         out |-> <<Ev("print_send_key", self, user, None),
                   Ev("call_receive_key", user, self, my_encryption_key)>>
                 \o r.out
                 \o <<Ev("print_got_key", self, user, None),
                      Ev("store", self, user, entry)>>]

\* User.send_key_to_user: [exc, keys, nextKey, out]
send_key_to_user(ks, nk, self, user, encryption_type) ==
    IF encryption_type \notin {"symmetric", "asymmetric"}
    THEN [exc |-> "ValueError", keys |-> ks, nextKey |-> nk, out |-> <<>>]
    ELSE LET handler == NewHandler(encryption_type, nk)
             my_encryption_key == get_encryption_key(handler)
             r == receive_key_for_user(ks, nk + 1, user, self,
                                       my_encryption_key, encryption_type)
             entry == Entry(handler, r.ret)
             head == <<Ev("print_send_key", self, user, None),
                       Ev("call_receive_key", user, self, my_encryption_key)>>
         IN  IF r.exc # "none"
             THEN [exc |-> r.exc, keys |-> r.keys, nextKey |-> r.nextKey,
                   out |-> head \o r.out]
             ELSE [exc |-> "none",
                   keys |-> [r.keys EXCEPT ![self] = DictSet(@, UserId(user), entry)],
                   nextKey |-> r.nextKey,
                   out |-> head \o r.out
                           \o <<Ev("print_got_key", self, user, None),
                                Ev("store", self, user, entry)>>]

\* receive that looks the sender up without the membership test
receive_message_from_unchecked(ks, self, user, encrypted_message) ==
    IF UserId(user) \notin DOMAIN ks[self]
    THEN [exc |-> "KeyError", out |-> <<>>]
    ELSE LET my_encryption_handler == ks[self][UserId(user)].my_encryption_handler
             d == decrypt_message(my_encryption_handler, encrypted_message)
             call == Ev("call_decrypt", self, user, my_encryption_handler)
         IN  IF d.exc # "none"
             THEN [exc |-> d.exc, out |-> <<call>>]
             ELSE [exc |-> "none",
                   out |-> <<call, Ev("print_received_message", self, user, d.value)>>]

\* receive that tries the handlers of all its entries, whoever the sender is
receive_message_from_any_peer(ks, self, user, encrypted_message) ==
    IF UserId(user) \notin DOMAIN ks[self]
    THEN [exc |-> "none", out |-> <<Ev("print_cannot_decrypt", self, user, None)>>]
    ELSE LET opens(i) ==
                 decrypt_message(ks[self][i].my_encryption_handler,
                                 encrypted_message).exc = "none"
             chosen == IF \E i \in DOMAIN ks[self] : opens(i)
                       THEN CHOOSE i \in DOMAIN ks[self] : opens(i)
                       ELSE UserId(user)
             my_encryption_handler == ks[self][chosen].my_encryption_handler
             d == decrypt_message(my_encryption_handler, encrypted_message)
             call == Ev("call_decrypt", self, user, my_encryption_handler)
         IN  IF d.exc # "none"
             THEN [exc |-> d.exc, out |-> <<call>>]
             ELSE [exc |-> "none",
                   out |-> <<call, Ev("print_received_message", self, user, d.value)>>]

\* User.receive_message_from: [exc, out]
receive_message_from(ks, self, user, encrypted_message) ==
    IF UserId(user) \notin DOMAIN ks[self]
    THEN [exc |-> "none", out |-> <<Ev("print_cannot_decrypt", self, user, None)>>]
    ELSE LET encryption_info == ks[self][UserId(user)]
             my_encryption_handler == encryption_info.my_encryption_handler
             d == decrypt_message(my_encryption_handler, encrypted_message)
             call == Ev("call_decrypt", self, user, my_encryption_handler)
         IN  IF d.exc # "none"
             THEN [exc |-> d.exc, out |-> <<call>>]
             ELSE [exc |-> "none",
                   out |-> <<call, Ev("print_received_message", self, user, d.value)>>]

\* send that encrypts under the handler's own key, passing no key
send_message_to_own_key(ks, self, user, message, iv) ==
    IF UserId(user) \notin DOMAIN ks[self]
    THEN [exc |-> "none", out |-> <<Ev("print_cannot_send", self, user, None)>>]
    ELSE LET my_encryption_handler == ks[self][UserId(user)].my_encryption_handler
             e == encrypt_message(my_encryption_handler, message, None, iv)
             call == Ev("call_encrypt", self, user,
                        get_encryption_key(my_encryption_handler))
         IN  IF e.exc # "none"
             THEN [exc |-> e.exc, out |-> <<call>>]
             ELSE LET r == receive_message_from(ks, user, self, e.value)
                  IN  [exc |-> r.exc,
                       out |-> <<call, Ev("call_receive_message", user, self, e.value)>>
                               \o r.out]

\* send that hands the message to the peer without the membership test
send_message_to_unchecked(ks, self, user, message, iv) ==
    IF UserId(user) \notin DOMAIN ks[self]
    THEN LET r == receive_message_from(ks, user, self, Garbage)
         IN  [exc |-> r.exc,
              out |-> <<Ev("call_receive_message", user, self, Garbage)>> \o r.out]
    ELSE LET encryption_info == ks[self][UserId(user)]
             e == encrypt_message(encryption_info.my_encryption_handler, message,
                                  encryption_info.encryption_key, iv)
             call == Ev("call_encrypt", self, user, encryption_info.encryption_key)
         IN  IF e.exc # "none"
             THEN [exc |-> e.exc, out |-> <<call>>]
             ELSE LET r == receive_message_from(ks, user, self, e.value)
                  IN  [exc |-> r.exc,
                       out |-> <<call, Ev("call_receive_message", user, self, e.value)>>
                               \o r.out]

\* User.send_message_to: [exc, out]
send_message_to(ks, self, user, message, iv) ==
    IF UserId(user) \notin DOMAIN ks[self]
    THEN [exc |-> "none", out |-> <<Ev("print_cannot_send", self, user, None)>>]
    ELSE LET encryption_info == ks[self][UserId(user)]
             my_encryption_handler == encryption_info.my_encryption_handler
             encryption_key == encryption_info.encryption_key
             e == encrypt_message(my_encryption_handler, message, encryption_key, iv)
             call == Ev("call_encrypt", self, user, encryption_key)
         IN  IF e.exc # "none"
             THEN [exc |-> e.exc, out |-> <<call>>]
             ELSE LET r == receive_message_from(ks, user, self, e.value)
                  IN  [exc |-> r.exc,
                       out |-> <<call, Ev("call_receive_message", user, self, e.value)>>
                               \o r.out]

(***************************************************************************)
(* Ciphertexts a caller can hand to receive_message_from: bytes that are   *)
(* no ciphertext, and a message encrypted under any key held in any table. *)
(***************************************************************************)
TableEntries(ks) == UNION {{ks[u][i] : i \in DOMAIN ks[u]} : u \in Users}

KnownEncryptionKeys(ks) ==
    {e.encryption_key : e \in TableEntries(ks)}
        \cup {get_encryption_key(e.my_encryption_handler) : e \in TableEntries(ks)}

EncryptUnder(k, message, iv) ==
    IF k.kind = "fernet_key" THEN FernetEncrypt(k, Encode(message), iv).value
    ELSE RsaEncrypt(k, Encode(message), iv).value

CiphertextInputs(ks) == {Garbage} \cup {EncryptUnder(k, Hello, 1) : k \in KnownEncryptionKeys(ks)}

(***************************************************************************)
(* Sequential program: every call runs to completion before the next.      *)
(***************************************************************************)
\* a call of a handler method: the handler (its position in hs), the
\* arguments, the exception raised and the value returned, by kind
Call(name, h, message, key, ct, iv, e, ret_ct, ret_text, ret_key) ==
    [name |-> name, h |-> h, message |-> message, key |-> key, ct |-> ct, iv |-> iv,
     exc |-> e, ret_ct |-> ret_ct, ret_text |-> ret_text, ret_key |-> ret_key]

NoCall == Call("none", 0, <<>>, None, Garbage, 0, "none", Garbage, <<>>, None)

IdleThread ==
    [pc |-> "idle", self |-> "nobody", user |-> "nobody", type |-> "none",
     handler |-> NoHandler, ret |-> None, exc |-> "none", raced |-> FALSE]

Init ==
    /\ keys = [u \in Users |-> EmptyDict]
    /\ nextKey = 1
    /\ op = NoOp
    /\ out = <<>>
    /\ exc = "none"
    /\ thr = [t \in Threads |-> IdleThread]
    /\ hs = <<>>
    /\ lastCall = NoCall
    /\ prevCall = NoCall

Supported(encryption_type) == encryption_type \in {"symmetric", "asymmetric"}

SendKeyToUser(self, user, encryption_type) ==
    /\ Supported(encryption_type) => nextKey + 1 <= MaxKey
    /\ LET r == send_key_to_user(keys, nextKey, self, user, encryption_type)
       IN  /\ keys' = r.keys
           /\ nextKey' = r.nextKey
           /\ out' = r.out
           /\ exc' = r.exc
    /\ op' = Op("send_key_to_user", self, user, encryption_type)
    /\ UNCHANGED <<thr, hs, lastCall, prevCall>>

\* send that uses its credential up: the sender's entry for the peer is dropped
SendMessageTo_consumes(self, user, message) ==
    /\ \E iv \in Nonces :
         LET r == send_message_to(keys, self, user, message, iv)
         IN  /\ out' = r.out
             /\ exc' = r.exc
    /\ op' = Op("send_message_to", self, user, message)
    /\ keys' = [keys EXCEPT ![self] = [x \in (DOMAIN @) \ {UserId(user)} |-> @[x]]]
    /\ UNCHANGED <<nextKey, thr, hs, lastCall, prevCall>>

SendMessageTo(self, user, message) ==
    /\ \E iv \in Nonces :
         LET r == send_message_to(keys, self, user, message, iv)
         IN  /\ out' = r.out
             /\ exc' = r.exc
    /\ op' = Op("send_message_to", self, user, message)
    /\ UNCHANGED <<keys, nextKey, thr, hs, lastCall, prevCall>>

ReceiveMessageFrom(self, user, encrypted_message) ==
    /\ LET r == receive_message_from(keys, self, user, encrypted_message)
       IN  /\ out' = r.out
           /\ exc' = r.exc
    /\ op' = Op("receive_message_from", self, user, encrypted_message)
    /\ UNCHANGED <<keys, nextKey, thr, hs, lastCall, prevCall>>

Next ==
    \/ \E self \in Users, user \in Users, t \in EncryptionTypes :
         SendKeyToUser(self, user, t)
    \/ \E self \in Users, user \in Users, m \in Messages :
         SendMessageTo(self, user, m)
    \/ \E self \in Users, user \in Users, c \in CiphertextInputs(keys) :
         ReceiveMessageFrom(self, user, c)

Spec == Init /\ [][Next]_vars

(***************************************************************************)
(* Concurrent program: each thread runs one send_key_to_user, and the      *)
(* threads interleave between its statements.  A thread is at "call" once  *)
(* it has built its handler, at "store" once the peer's acceptance has     *)
(* returned, at "done" once it has written its own entry or has raised.    *)
(* `raced` records that the thread was between the acceptance and its own  *)
(* write while another thread was too.  Messages are sent once all threads *)
(* are done.                                                               *)
(***************************************************************************)
\* send_key_to_user up to the call of the peer's acceptance
Begin(t, self, user, encryption_type) ==
    /\ thr[t].pc = "idle"
    /\ Supported(encryption_type) => nextKey <= MaxKey
    /\ IF ~Supported(encryption_type)
       THEN /\ thr' = [thr EXCEPT ![t] = [@ EXCEPT !.pc = "done", !.self = self,
                                             !.user = user, !.type = encryption_type,
                                             !.exc = "ValueError"]]
            /\ UNCHANGED nextKey
       ELSE /\ thr' = [thr EXCEPT ![t] = [@ EXCEPT !.pc = "call", !.self = self,
                                             !.user = user, !.type = encryption_type,
                                             !.handler = NewHandler(encryption_type, nextKey)]]
            /\ nextKey' = nextKey + 1
    /\ UNCHANGED <<keys, op, out, exc, hs, lastCall, prevCall>>

\* the peer's __receive_key_for_user, called by thread t
Accept(t) ==
    /\ thr[t].pc = "call"
    /\ nextKey <= MaxKey
    /\ LET r == receive_key_for_user(keys, nextKey, thr[t].user, thr[t].self,
                                     get_encryption_key(thr[t].handler), thr[t].type)
           race == \E u \in Threads \ {t} : thr[u].pc = "store"
       IN  /\ keys' = r.keys
           /\ nextKey' = r.nextKey
           /\ thr' = [u \in Threads |->
                        IF u = t
                        THEN [thr[u] EXCEPT !.pc = "store", !.ret = r.ret, !.raced = race]
                        ELSE IF thr[u].pc = "store"
                             THEN [thr[u] EXCEPT !.raced = TRUE]
                             ELSE thr[u]]
    /\ UNCHANGED <<op, out, exc, hs, lastCall, prevCall>>

\* send_key_to_user from the return of the acceptance: the write of its own entry
Store(t) ==
    /\ thr[t].pc = "store"
    /\ keys' = [keys EXCEPT ![thr[t].self] =
                   DictSet(@, UserId(thr[t].user), Entry(thr[t].handler, thr[t].ret))]
    /\ thr' = [thr EXCEPT ![t].pc = "done"]
    /\ UNCHANGED <<nextKey, op, out, exc, hs, lastCall, prevCall>>

AllDone == \A t \in Threads : thr[t].pc = "done"

NextConc ==
    \/ \E t \in Threads, self \in Users, user \in Users, e \in EncryptionTypes :
         Begin(t, self, user, e)
    \/ \E t \in Threads : Accept(t)
    \/ \E t \in Threads : Store(t)
    \/ \E self \in Users, user \in Users :
         AllDone /\ SendMessageTo(self, user, Hello)

SpecConc == Init /\ [][NextConc]_vars

(***************************************************************************)
(* Handlers used directly, as in the notebook's example cells: handlers    *)
(* are constructed into hs and their methods called.  lastCall is the      *)
(* last call made and prevCall the call before it when that one was an     *)
(* encrypt_message.  The IV or seed of an encryption is random: it         *)
(* differs from the one drawn by the encryption before.                    *)
(***************************************************************************)
\* a key made by the caller with Fernet.generate_key()
SuppliedKey == FernetGenerateKey(0)

KeyArguments == {None, EmptyBytes} \cup {get_encryption_key(hs[j]) : j \in 1..Len(hs)}

Remember == IF lastCall.name = "encrypt_message" THEN lastCall ELSE NoCall

FreshNonces == IF lastCall.name = "encrypt_message" THEN Nonces \ {lastCall.iv} ELSE Nonces

\* ciphertexts the caller holds: those the remembered calls returned
HeldCiphertexts ==
    {Garbage} \cup {c.ret_ct : c \in {d \in {lastCall, prevCall} :
                                        d.name = "encrypt_message" /\ d.exc = "none"}}

\* handler = SymmetricEncryptionHandler(key) / AsymmetricEncryptionHandler()
Construct(cls, key) ==
    /\ Len(hs) < MaxHandlers
    /\ cls = "asymmetric" => key = None
    /\ LET h == IF cls = "symmetric"
                THEN SymmetricEncryptionHandler(key, nextKey)
                ELSE AsymmetricEncryptionHandler(nextKey)
       IN  /\ hs' = Append(hs, h)
           /\ lastCall' = Call("__init__", Len(hs) + 1, <<>>, key, Garbage, 0, "none",
                               Garbage, <<>>, None)
    /\ nextKey' = nextKey + 1
    /\ prevCall' = Remember
    /\ UNCHANGED <<keys, op, out, exc, thr>>

\* encryption that makes a supplied key the handler's own
EncryptMessage_adopts(i, message, key) ==
    /\ \E iv \in FreshNonces :
         LET r == encrypt_message(hs[i], message, key, iv)
         IN  lastCall' = Call("encrypt_message", i, message, key, Garbage, iv, r.exc,
                              r.value, <<>>, None)
    /\ prevCall' = Remember
    /\ hs' = [hs EXCEPT ![i].key = PyOr(key, @), ![i].public_key = PyOr(key, @)]
    /\ UNCHANGED <<keys, nextKey, op, out, exc, thr>>

EncryptMessage(i, message, key) ==
    /\ \E iv \in FreshNonces :
         LET r == encrypt_message(hs[i], message, key, iv)
         IN  lastCall' = Call("encrypt_message", i, message, key, Garbage, iv, r.exc,
                              r.value, <<>>, None)
    /\ prevCall' = Remember
    /\ UNCHANGED <<keys, nextKey, op, out, exc, thr, hs>>

DecryptMessage(i, encrypted_message) ==
    /\ LET r == decrypt_message(hs[i], encrypted_message)
       IN  lastCall' = Call("decrypt_message", i, <<>>, None, encrypted_message, 0,
                            r.exc, Garbage, r.value, None)
    /\ prevCall' = Remember
    /\ UNCHANGED <<keys, nextKey, op, out, exc, thr, hs>>

GetEncryptionKey(i) ==
    /\ lastCall' = Call("get_encryption_key", i, <<>>, None, Garbage, 0, "none",
                        Garbage, <<>>, get_encryption_key(hs[i]))
    /\ prevCall' = Remember
    /\ UNCHANGED <<keys, nextKey, op, out, exc, thr, hs>>

GetDecryptionKey(i) ==
    /\ lastCall' = Call("get_decryption_key", i, <<>>, None, Garbage, 0, "none",
                        Garbage, <<>>, get_decryption_key(hs[i]))
    /\ prevCall' = Remember
    /\ UNCHANGED <<keys, nextKey, op, out, exc, thr, hs>>

NextHandlers ==
    \/ \E cls \in {"symmetric", "asymmetric"}, key \in {None, EmptyBytes, SuppliedKey} :
         Construct(cls, key)
    \/ \E i \in 1..Len(hs), m \in Messages, key \in KeyArguments :
         EncryptMessage(i, m, key)
    \/ \E i \in 1..Len(hs), c \in HeldCiphertexts :
         DecryptMessage(i, c)
    \/ \E i \in 1..Len(hs) : GetEncryptionKey(i)
    \/ \E i \in 1..Len(hs) : GetDecryptionKey(i)

SpecHandlers == Init /\ [][NextHandlers]_vars

(***************************************************************************)
(* Vocabulary of the properties                                            *)
(***************************************************************************)
HasEntry(A, B) == UserId(B) \in DOMAIN keys[A]

EntryOf(A, B) == keys[A][UserId(B)]

HandlerOf(A, B) == EntryOf(A, B).my_encryption_handler

\* the call printed "<B> received a message from <A>: <m>"
Delivered(B, A, m) ==
    \E i \in 1..Len(out) :
        /\ out[i].ev = "print_received_message"
        /\ out[i].a = B /\ out[i].b = A
        /\ out[i].x = m

Happened(e) == \E i \in 1..Len(out) : out[i].ev = e

DecryptionErrors == {"InvalidToken", "ValueError"}

\* A and B are distinct and hold entries of the given variant for each other
Paired(A, B, variant) ==
    /\ A # B
    /\ HasEntry(A, B) /\ HasEntry(B, A)
    /\ HandlerOf(A, B).cls = variant
    /\ HandlerOf(B, A).cls = variant

SentMessage(A, B) == op.name = "send_message_to" /\ op.self = A /\ op.user = B

\* ct is an encryption of some message under the encryption key of handler h
ProducedFor(h, ct) ==
    \E m \in Messages, iv \in Nonces :
        LET e == encrypt_message(h, m, None, iv)
        IN  e.exc = "none" /\ e.value = ct

(***************************************************************************)
(* C1: after an asymmetric exchange between distinct parties A and B, a    *)
(* message m sent by either one to the other is delivered: the receiver    *)
(* prints exactly m and nothing is raised, for every plaintext m.          *)
(* The code refuses plaintexts of more than OaepMaxLength bytes.           *)
(***************************************************************************)
C1_AsymmetricEndToEnd ==
    \A A \in Users, B \in Users :
        (SentMessage(A, B) /\ Paired(A, B, "asymmetric"))
            => exc = "none" /\ Delivered(B, A, op.arg)

C3_CredentialConsistency ==
    \A A \in Users, B \in Users :
        (A # B /\ HasEntry(A, B))
            => /\ HasEntry(B, A)
               /\ EntryOf(A, B).encryption_key = get_encryption_key(HandlerOf(B, A))

C3_Witness ==
    /\ Paired("Alice", "Bob", "symmetric")
    /\ Paired("Carol", "Bob", "asymmetric")
    /\ SentMessage("Bob", "Carol")
    /\ HandlerOf("Bob", "Alice").oid > HandlerOf("Bob", "Carol").oid

(***************************************************************************)
(* C4: send_message_to with no entry for the peer prints the no-credential *)
(* line and returns: it raises nothing, encrypts nothing, does not call    *)
(* the peer's receive_message_from and changes no table.                   *)
(***************************************************************************)
C4_SendWithoutCredential ==
    [][(op'.name = "send_message_to" /\ ~HasEntry(op'.self, op'.user))
          => /\ exc' = "none"
             /\ Len(out') = 1
             /\ out'[1] = Ev("print_cannot_send", op'.self, op'.user, None)
             /\ keys' = keys
             /\ nextKey' = nextKey]_vars

C4_Witness ==
    /\ SentMessage("Alice", "Bob")
    /\ ~HasEntry("Alice", "Bob")
    /\ HasEntry("Alice", "Carol")
    /\ Happened("print_cannot_send")

(***************************************************************************)
(* C5: receive_message_from with no entry for the sender prints the        *)
(* no-credential line and returns: no exception, no decryption, no         *)
(* plaintext.  With an entry it decrypts with that entry's own handler and *)
(* yields what that handler's decrypt_message yields.                      *)
(***************************************************************************)
C5_ReceiveWithoutCredential ==
    op.name = "receive_message_from"
        => IF ~HasEntry(op.self, op.user)
           THEN /\ exc = "none"
                /\ Len(out) = 1
                /\ out[1] = Ev("print_cannot_decrypt", op.self, op.user, None)
           ELSE LET d == decrypt_message(HandlerOf(op.self, op.user), op.arg)
                IN  /\ out[1] = Ev("call_decrypt", op.self, op.user,
                                   HandlerOf(op.self, op.user))
                    /\ exc = d.exc
                    /\ IF d.exc = "none"
                       THEN Delivered(op.self, op.user, d.value)
                       ELSE ~Happened("print_received_message")

C5_Witness ==
    /\ op.name = "receive_message_from"
    /\ op.self = "Carol" /\ op.user = "Alice"
    /\ ~HasEntry("Carol", "Alice")
    /\ HasEntry("Alice", "Bob")
    /\ op.arg.kind = "fernet_token"
    /\ Happened("print_cannot_decrypt")

(***************************************************************************)
(* C6: an exchange asked for with a tag other than symmetric or asymmetric *)
(* raises ValueError before the peer's acceptance is called and leaves the *)
(* tables of the initiator and of the peer as they were.                   *)
(***************************************************************************)
C6_UnsupportedType ==
    [][(op'.name = "send_key_to_user" /\ ~Supported(op'.arg))
          => /\ exc' = "ValueError"
             /\ out' = <<>>
             /\ keys' = keys
             /\ nextKey' = nextKey]_vars

C6_Witness ==
    /\ op.name = "send_key_to_user"
    /\ op.self = "Alice" /\ op.user = "Bob" /\ op.arg = "rot13"
    /\ exc = "ValueError"
    /\ Paired("Alice", "Bob", "asymmetric")

(***************************************************************************)
(* C7: an exchange between distinct parties A and B overwrites.  After it  *)
(* each holds one entry for the other, of two fields, whose handler was    *)
(* created by this exchange, is of the requested variant, and whose peer   *)
(* key is the encryption key of the other's new handler; the handler and   *)
(* peer key of an earlier entry are gone.                                  *)
(***************************************************************************)
C7_OverwriteOnReExchange ==
    [][\A A \in Users, B \in Users :
          (/\ A # B
           /\ op'.name = "send_key_to_user" /\ op'.self = A /\ op'.user = B
           /\ Supported(op'.arg))
            => LET ea == keys'[A][UserId(B)]
                   eb == keys'[B][UserId(A)]
               IN  /\ UserId(B) \in DOMAIN keys'[A]
                   /\ UserId(A) \in DOMAIN keys'[B]
                   /\ DOMAIN ea = {"my_encryption_handler", "encryption_key"}
                   /\ DOMAIN eb = {"my_encryption_handler", "encryption_key"}
                   /\ ea.my_encryption_handler.oid >= nextKey
                   /\ eb.my_encryption_handler.oid >= nextKey
                   /\ ea.my_encryption_handler.cls = op'.arg
                   /\ eb.my_encryption_handler.cls = op'.arg
                   /\ ea.encryption_key = get_encryption_key(eb.my_encryption_handler)
                   /\ eb.encryption_key = get_encryption_key(ea.my_encryption_handler)
                   /\ HasEntry(A, B) =>
                        /\ ea.my_encryption_handler # HandlerOf(A, B)
                        /\ ea.encryption_key # EntryOf(A, B).encryption_key
                   /\ HasEntry(B, A) =>
                        /\ eb.my_encryption_handler # HandlerOf(B, A)
                        /\ eb.encryption_key # EntryOf(B, A).encryption_key]_vars

C7_Witness ==
    /\ op.name = "send_key_to_user" /\ op.self = "Bob" /\ op.user = "Alice"
    /\ exc = "none"
    /\ nextKey = 5
    /\ DOMAIN keys["Alice"] = {UserId("Bob")}
    /\ DOMAIN keys["Bob"] = {UserId("Alice")}
    /\ DOMAIN keys["Carol"] = {}
    /\ HandlerOf("Bob", "Alice").oid = 3
    /\ HandlerOf("Alice", "Bob").oid = 4

(***************************************************************************)
(* C8: exchanges on the same pair are unsafe when interleaved.  When one   *)
(* thread runs A.send_key_to_user(B) and another B.send_key_to_user(A),    *)
(* both have finished and each wrote its own entry after both acceptances  *)
(* had returned, the peer key A stores for B is not the encryption key of  *)
(* the handler B stores for A, and a message A then sends to B ends in a   *)
(* decryption error with nothing delivered.  When they did not overlap the *)
(* two entries agree.                                                      *)
(***************************************************************************)
Exchanging(t, A, B) ==
    thr[t].self = A /\ thr[t].user = B /\ Supported(thr[t].type)

C8_ConcurrentExchangeUnsafe ==
    \A A \in Users, B \in Users :
        (A # B /\ AllDone /\ Exchanging("t1", A, B) /\ Exchanging("t2", B, A))
            => /\ HasEntry(A, B) /\ HasEntry(B, A)
               /\ thr["t1"].raced = thr["t2"].raced
               /\ thr["t1"].raced
                    <=> EntryOf(A, B).encryption_key # get_encryption_key(HandlerOf(B, A))
               /\ (thr["t1"].raced /\ SentMessage(A, B))
                    => exc \in DecryptionErrors /\ ~Delivered(B, A, op.arg)

C8_Witness ==
    /\ AllDone
    /\ Exchanging("t1", "Alice", "Bob") /\ Exchanging("t2", "Bob", "Alice")
    /\ thr["t1"].type = "symmetric" /\ thr["t2"].type = "symmetric"
    /\ thr["t1"].raced
    /\ EntryOf("Alice", "Bob").encryption_key
          # get_encryption_key(HandlerOf("Bob", "Alice"))
    /\ SentMessage("Alice", "Bob")
    /\ exc = "InvalidToken"

(***************************************************************************)
(* C9: receive_message_from given a ciphertext that was not made for the   *)
(* handler stored for that sender raises a decryption error to its caller, *)
(* prints no plaintext and changes no table, so later calls find the state *)
(* they would have found without it.                                       *)
(***************************************************************************)
C9_UndecryptableCiphertext ==
    [][(/\ op'.name = "receive_message_from"
        /\ HasEntry(op'.self, op'.user)
        /\ ~ProducedFor(HandlerOf(op'.self, op'.user), op'.arg))
          => /\ exc' \in DecryptionErrors
             /\ \A i \in 1..Len(out') : out'[i].ev # "print_received_message"
             /\ keys' = keys
             /\ nextKey' = nextKey]_vars

C9_Witness ==
    /\ op.name = "receive_message_from"
    /\ op.self = "Bob" /\ op.user = "Alice"
    /\ Paired("Alice", "Bob", "symmetric")
    /\ op.arg.kind = "fernet_token"
    /\ exc = "InvalidToken"

(***************************************************************************)
(* C10: presence is mutual.  For distinct parties A and B, A holds an      *)
(* entry for B exactly when B holds an entry for A.                        *)
(***************************************************************************)
C10_MutualPresence ==
    \A A \in Users, B \in Users :
        A # B => (HasEntry(A, B) <=> HasEntry(B, A))

C10_Witness ==
    /\ op.name = "send_key_to_user" /\ op.self = "Carol" /\ op.user = "Alice"
    /\ exc = "none"
    /\ HasEntry("Carol", "Alice") /\ HasEntry("Alice", "Carol")
    /\ ~HasEntry("Bob", "Alice") /\ ~HasEntry("Alice", "Bob")

(***************************************************************************)
(* C11: an entry, once held, stays.  No exchange (completed or refused),   *)
(* send or receive removes an entry from any party's table.                *)
(***************************************************************************)
C11_EntriesNeverRemoved ==
    [][\A A \in Users, B \in Users :
          HasEntry(A, B) => UserId(B) \in DOMAIN keys'[A]]_vars

C11_Witness ==
    /\ op.name = "send_key_to_user" /\ op.self = "Alice" /\ op.user = "Carol"
    /\ exc = "none"
    /\ HasEntry("Alice", "Bob") /\ HasEntry("Alice", "Carol")
    /\ HandlerOf("Alice", "Bob").oid < HandlerOf("Alice", "Carol").oid


(***************************************************************************)
(* Vocabulary of the handler-level properties                              *)
(***************************************************************************)
IsEncrypt(c) == c.name = "encrypt_message"

IsDecrypt(c) == c.name = "decrypt_message"

\* encrypt_message(m), or for the asymmetric variant encrypt_message(m, own key)
UnderOwnKey(c) ==
    /\ IsEncrypt(c)
    /\ \/ c.key = None
       \/ hs[c.h].cls = "asymmetric" /\ c.key = get_encryption_key(hs[c.h])

\* lastCall decrypts what prevCall returned
DecryptsPrevious ==
    /\ IsDecrypt(lastCall) /\ IsEncrypt(prevCall)
    /\ prevCall.exc = "none" /\ lastCall.ct = prevCall.ret_ct

(***************************************************************************)
(* C12  Round trip: for every plaintext m and every handler h of either    *)
(* variant, h.decrypt_message(h.encrypt_message(m)) returns m, for the     *)
(* asymmetric variant also with h's own encryption key passed as the key   *)
(* argument: the encryption returns a ciphertext and its decryption by     *)
(* the same handler returns m.                                             *)
(***************************************************************************)
C12_RoundTrip ==
    /\ UnderOwnKey(lastCall) => lastCall.exc = "none"
    /\ (DecryptsPrevious /\ UnderOwnKey(prevCall) /\ lastCall.h = prevCall.h)
         => lastCall.exc = "none" /\ lastCall.ret_text = prevCall.message


(***************************************************************************)
(* C13  For every plaintext m and two independently constructed handlers   *)
(* h1, h2 of the same variant (each generated its own key material),       *)
(* h1.decrypt_message(h2.encrypt_message(m)) fails with a decryption       *)
(* error and returns no plaintext.                                         *)
(***************************************************************************)
\* the handler generated its own key material: it was not handed a key
GeneratedOwnKey(h) == h.cls = "symmetric" => h.key = FernetGenerateKey(h.oid)

Independent(i, j) ==
    /\ i # j
    /\ hs[i].cls = hs[j].cls
    /\ GeneratedOwnKey(hs[i]) /\ GeneratedOwnKey(hs[j])

OwnedHandlers(Q) == {keys[Q][i].my_encryption_handler : i \in DOMAIN keys[Q]}

StoredPeerKeys(P) == {keys[P][i].encryption_key : i \in DOMAIN keys[P]}

\* keys passed to P's acceptance operation by the last call
PassedTo(P) ==
    {out[i].x : i \in {j \in 1..Len(out) :
                          out[j].ev = "call_receive_key" /\ out[j].a = P}}

HeldBy(P) == StoredPeerKeys(P) \cup PassedTo(P)

(***************************************************************************)
(* C14 as stated: across exchanges of either variant, no key passed to,    *)
(* returned to (and so stored by) or stored by a party is the decryption   *)
(* key of a handler owned by a different party.                            *)
(***************************************************************************)
C14_DecryptionKeyNeverLeaves ==
    \A P \in Users : \A Q \in Users \ {P} :
        \A h \in OwnedHandlers(Q) : get_decryption_key(h) \notin HeldBy(P)

(***************************************************************************)
(* C14 amended: the private key of an asymmetric handler never leaves its  *)
(* owner; no key passed to or stored by a party is the decryption key of   *)
(* an asymmetric handler owned by a different party.  (In a symmetric      *)
(* exchange the key each side hands over is its handler's decryption key.) *)
(***************************************************************************)
C14_PrivateKeyNeverLeaves ==
    \A P \in Users : \A Q \in Users \ {P} :
        \A h \in OwnedHandlers(Q) :
            h.cls = "asymmetric" => get_decryption_key(h) \notin HeldBy(P)

C14_Witness ==
    /\ op.name = "send_key_to_user" /\ op.self = "Alice" /\ op.user = "Bob"
    /\ exc = "none"
    /\ Paired("Alice", "Bob", "asymmetric")
    /\ PassedTo("Bob") # {}
    /\ StoredPeerKeys("Alice") # {}


(***************************************************************************)
(* C15  Encrypting the same plaintext twice with the same handler (either  *)
(* variant, same key) yields two distinct ciphertexts, and the handler     *)
(* decrypts both of them to that plaintext.                                *)
(***************************************************************************)
\* prevCall and lastCall encrypt one plaintext with one handler and one key
EncryptedTwice ==
    /\ IsEncrypt(prevCall) /\ IsEncrypt(lastCall)
    /\ lastCall.h = prevCall.h
    /\ lastCall.message = prevCall.message
    /\ lastCall.key = prevCall.key
    /\ UnderOwnKey(lastCall)

DecryptsTo(c) ==
    LET d == decrypt_message(hs[c.h], c.ret_ct)
    IN  d.exc = "none" /\ d.value = c.message

C15_TwoDistinctCiphertexts ==
    EncryptedTwice
        => /\ prevCall.exc = "none" /\ lastCall.exc = "none"
           /\ prevCall.ret_ct # lastCall.ret_ct
           /\ DecryptsTo(prevCall) /\ DecryptsTo(lastCall)


(***************************************************************************)
(* C16  encrypt_message(message, key) encrypts under the supplied key      *)
(* whenever a key argument is supplied, whatever its value (an empty one   *)
(* included), and under the handler's own key only when none is supplied;  *)
(* SymmetricEncryptionHandler(key) keeps the supplied key.                 *)
(***************************************************************************)
\* the call c did what the library does with key k
EncryptedUnder(c, k) ==
    LET r == IF hs[c.h].cls = "symmetric"
             THEN FernetEncrypt(k, Encode(c.message), c.iv)
             ELSE RsaEncrypt(k, Encode(c.message), c.iv)
    IN  c.exc = r.exc /\ c.ret_ct = r.value

C16_SuppliedKeyIsUsed ==
    /\ IsEncrypt(lastCall) =>
         IF lastCall.key # None
         THEN EncryptedUnder(lastCall, lastCall.key)
         ELSE EncryptedUnder(lastCall, get_encryption_key(hs[lastCall.h]))
    /\ (lastCall.name = "__init__" /\ hs[lastCall.h].cls = "symmetric"
                                   /\ lastCall.key # None)
         => hs[lastCall.h].key = lastCall.key


(***************************************************************************)
(* C17  In every reachable state every entry pairs a handler and a peer    *)
(* key of the same variant family, and the entries two parties hold for    *)
(* each other are of the same variant, also after the pair has exchanged   *)
(* again with another variant.                                             *)
(***************************************************************************)
KeyFamily(k) ==
    CASE k.kind = "fernet_key" -> "symmetric"
      [] k.kind = "rsa_public" -> "asymmetric"
      [] OTHER -> "none"

C17_SameVariantFamily ==
    \A A \in Users, B \in Users :
        HasEntry(A, B)
            => /\ KeyFamily(EntryOf(A, B).encryption_key) = HandlerOf(A, B).cls
               /\ HasEntry(B, A) => HandlerOf(B, A).cls = HandlerOf(A, B).cls

\* Alice and Bob have exchanged twice, the second time asymmetrically
C17_Witness ==
    /\ op.name = "send_key_to_user" /\ op.self = "Bob" /\ op.user = "Alice"
    /\ exc = "none"
    /\ nextKey = 5
    /\ Paired("Alice", "Bob", "asymmetric")
    /\ ~HasEntry("Alice", "Carol") /\ ~HasEntry("Carol", "Alice")
    /\ ~HasEntry("Bob", "Carol") /\ ~HasEntry("Carol", "Bob")
    /\ ~HasEntry("Alice", "Alice") /\ ~HasEntry("Bob", "Bob")


(***************************************************************************)
(* C18  In an exchange of either variant the initiator and the acceptor    *)
(* each create a fresh handler with key material of its own: the handlers  *)
(* the two sides store never have the same decryption key, so in the       *)
(* symmetric variant the two sides hold different shared secrets.          *)
(***************************************************************************)
\* the entries the last call stored, in order
Stored == SelectSeq(out, LAMBDA e : e.ev = "store")

Exchanged(A, B) ==
    /\ op.name = "send_key_to_user" /\ op.self = A /\ op.user = B
    /\ exc = "none"

Slots == {<<P, i>> : P \in Users, i \in {UserId(B) : B \in Users}}

Filled == {s \in Slots : s[2] \in DOMAIN keys[s[1]]}

SlotEntry(s) == keys[s[1]][s[2]]

C19_NothingShared ==
    \A s \in Filled : \A t \in Filled \ {s} :
        /\ SlotEntry(s).my_encryption_handler.oid # SlotEntry(t).my_encryption_handler.oid
        /\ s[1] # t[1] => SlotEntry(s) # SlotEntry(t)

C19_Witness ==
    /\ Paired("Alice", "Bob", "symmetric")
    /\ Paired("Alice", "Carol", "symmetric")
    /\ Cardinality(Filled) = 4


(***************************************************************************)
(* C20  Operations are synchronous and ordered: within an exchange the     *)
(* acceptor's entry for the initiator is stored before the initiator's     *)
(* entry for the acceptor and both are stored when the exchange returns;   *)
(* each send_message_to that finds a credential causes exactly one         *)
(* receive_message_from at the peer, which has completed (plaintext        *)
(* printed, or error raised) when send_message_to returns.                 *)
(***************************************************************************)
ReceiveCalls == {i \in 1..Len(out) : out[i].ev = "call_receive_message"}

\* the receive called at position i ran to its end before the call returned
Completed(i) ==
    /\ i < Len(out)
    /\ \/ exc = "none" /\ out[Len(out)].ev \in {"print_received_message",
                                                 "print_cannot_decrypt"}
       \/ exc # "none" /\ out[Len(out)].ev = "call_decrypt"

C20_SynchronousAndOrdered ==
    \A A \in Users, B \in Users :
        /\ Exchanged(A, B)
             => /\ Len(Stored) = 2
                /\ Stored[1].a = B /\ Stored[1].b = A
                /\ Stored[2].a = A /\ Stored[2].b = B
                /\ HasEntry(A, B) /\ EntryOf(A, B) = Stored[2].x
                /\ HasEntry(B, A) /\ (A # B => EntryOf(B, A) = Stored[1].x)
        /\ (SentMessage(A, B) /\ HasEntry(A, B))
             => /\ Cardinality(ReceiveCalls) = 1
                /\ \A i \in ReceiveCalls :
                     out[i].a = B /\ out[i].b = A /\ Completed(i)


(***************************************************************************)
(* C21  Frame: the only changes any operation makes to a table are the     *)
(* two writes of a completed exchange between A and B, to A's entry for B  *)
(* and B's entry for A; every other entry of A and B and every other       *)
(* party's table is left as it was, and send_message_to and                *)
(* receive_message_from change no table, whether they succeed or fail.     *)
(***************************************************************************)
\* the step changes, adds or removes P's entry for X
EntryChanges(P, X) ==
    \/ (UserId(X) \in DOMAIN keys[P]) # (UserId(X) \in DOMAIN keys'[P])
    \/ /\ UserId(X) \in DOMAIN keys[P] /\ UserId(X) \in DOMAIN keys'[P]
       /\ keys[P][UserId(X)] # keys'[P][UserId(X)]

C21_Frame ==
    [][/\ \A P \in Users, X \in Users :
            EntryChanges(P, X)
                => /\ op'.name = "send_key_to_user" /\ exc' = "none"
                   /\ \/ P = op'.self /\ X = op'.user
                      \/ P = op'.user /\ X = op'.self
       /\ op'.name \in {"send_message_to", "receive_message_from"}
            => keys' = keys]_vars

\* Bob, already paired with Alice, has just exchanged with Carol
C21_Witness ==
    /\ op.name = "send_key_to_user" /\ op.self = "Bob" /\ op.user = "Carol"
    /\ exc = "none"
    /\ Paired("Alice", "Bob", "symmetric")
    /\ Paired("Bob", "Carol", "asymmetric")
    /\ HandlerOf("Bob", "Alice").oid < HandlerOf("Bob", "Carol").oid


(***************************************************************************)
(* C22  Self-exchange: after A.send_key_to_user(A, variant) the entry the  *)
(* acceptor side wrote under A.id has been overwritten by the initiator    *)
(* side's: the one entry left holds the initiator-side handler and the     *)
(* encryption key of the discarded acceptor-side handler.  A following     *)
(* A.send_message_to(A, m) is encrypted under a key the stored handler     *)
(* cannot decrypt and ends in a decryption error, m is not yielded.        *)
(***************************************************************************)
\* the last call reached the peer's decryption and that raised
EndedInDecryptionError ==
    /\ Happened("call_receive_message")
    /\ out[Len(out)].ev = "call_decrypt"
    /\ exc \in DecryptionErrors

C22_SelfExchange ==
    \A A \in Users :
        /\ Exchanged(A, A)
             => /\ Len(Stored) = 2
                /\ EntryOf(A, A) = Stored[2].x
                /\ HandlerOf(A, A) # Stored[1].x.my_encryption_handler
                /\ EntryOf(A, A).encryption_key
                      = get_encryption_key(Stored[1].x.my_encryption_handler)
                /\ \A s \in Filled :
                      SlotEntry(s).my_encryption_handler
                         # Stored[1].x.my_encryption_handler
        /\ (SentMessage(A, A) /\ HasEntry(A, A))
             => /\ EndedInDecryptionError
                /\ ~Happened("print_received_message")


(***************************************************************************)
(* C23  Per-peer isolation: for distinct parties A, B, C where B has       *)
(* exchanged with both A and C, B uses a different handler for each peer,  *)
(* so a ciphertext A produced for B is decryptable only through B's entry  *)
(* for A: B.receive_message_from(C, that ciphertext) ends in a decryption  *)
(* error, and no handler held by C decrypts it.                            *)
(***************************************************************************)
Distinct(A, B, C) == A # B /\ B # C /\ A # C


\* the ciphertexts A's send_message_to(B, m) hands to B
CiphertextsFor(A, B) ==
    LET made == {encrypt_message(HandlerOf(A, B), m, EntryOf(A, B).encryption_key, iv) :
                    m \in Messages, iv \in Nonces}
    IN  {e.value : e \in {x \in made : x.exc = "none"}}

\* B.receive_message_from(C, ct) raises a decryption error and prints nothing
Refuses(B, C, ct) ==
    LET r == receive_message_from(keys, B, C, ct)
    IN  /\ r.exc \in DecryptionErrors
        /\ \A i \in 1..Len(r.out) : r.out[i].ev # "print_received_message"

C23_PerPeerIsolation ==
    \A A \in Users, B \in Users, C \in Users :
        (/\ Distinct(A, B, C)
         /\ HasEntry(A, B) /\ HasEntry(B, A)
         /\ HasEntry(B, C) /\ HasEntry(C, B))
        => /\ HandlerOf(B, A).oid # HandlerOf(B, C).oid
           /\ \A ct \in CiphertextsFor(A, B) :
                /\ decrypt_message(HandlerOf(B, A), ct).exc = "none"
                /\ Refuses(B, C, ct)
                /\ \A h \in OwnedHandlers(C) :
                     decrypt_message(h, ct).exc \in DecryptionErrors
                /\ (/\ op.name = "receive_message_from"
                    /\ op.self = B /\ op.user = C /\ op.arg = ct)
                   => exc \in DecryptionErrors /\ ~Happened("print_received_message")

\* Bob, paired with Alice and with Carol, was handed as coming from Carol a
\* ciphertext Alice made for him
C23_Witness ==
    /\ Paired("Alice", "Bob", "symmetric")
    /\ Paired("Bob", "Carol", "symmetric")
    /\ op.name = "receive_message_from" /\ op.self = "Bob" /\ op.user = "Carol"
    /\ op.arg \in CiphertextsFor("Alice", "Bob")
    /\ exc = "InvalidToken"


(***************************************************************************)
(* C24  In every reachable state a symmetric handler's                     *)
(* get_encryption_key() equals its get_decryption_key(), and an asymmetric *)
(* handler's get_encryption_key() is the public key derived from the       *)
(* private key get_decryption_key() returns, and never equal to it.        *)
(***************************************************************************)
KeysConsistent(h) ==
    IF h.cls = "symmetric"
    THEN get_encryption_key(h) = get_decryption_key(h)
    ELSE /\ get_decryption_key(h).kind = "rsa_private"
         /\ get_encryption_key(h) = PublicKeyOf(get_decryption_key(h))
         /\ get_encryption_key(h) # get_decryption_key(h)

C24_KeysConsistentWithVariant ==
    /\ \A i \in 1..Len(hs) : KeysConsistent(hs[i])
    /\ lastCall.name = "get_encryption_key" =>
         IF hs[lastCall.h].cls = "symmetric"
         THEN lastCall.ret_key = get_decryption_key(hs[lastCall.h])
         ELSE lastCall.ret_key = PublicKeyOf(get_decryption_key(hs[lastCall.h]))

C24_Witness ==
    /\ Len(hs) = 2
    /\ hs[1].cls = "symmetric" /\ hs[1].key = SuppliedKey
    /\ hs[2].cls = "asymmetric"
    /\ lastCall.name = "get_encryption_key" /\ lastCall.h = 2
    /\ lastCall.ret_key.kind = "rsa_public"


(***************************************************************************)
(* C25  A handler's key material is fixed at construction: no              *)
(* encrypt_message, decrypt_message or accessor call, encrypt_message      *)
(* with a supplied foreign key and failing calls included, changes the     *)
(* keys the handler returns from get_encryption_key() and                  *)
(* get_decryption_key().                                                   *)
(***************************************************************************)
C25_KeyMaterialFixed ==
    [][\A i \in 1..Len(hs) :
          /\ i \in 1..Len(hs')
          /\ get_encryption_key(hs'[i]) = get_encryption_key(hs[i])
          /\ get_decryption_key(hs'[i]) = get_decryption_key(hs[i])]_vars

\* handler 1 encrypted under handler 2's key, then failed to decrypt the result
C25_Witness ==
    /\ Len(hs) = 2
    /\ hs[1].cls = "symmetric" /\ hs[2].cls = "symmetric"
    /\ IsEncrypt(prevCall) /\ prevCall.h = 1 /\ prevCall.exc = "none"
    /\ prevCall.key = get_encryption_key(hs[2])
    /\ prevCall.key # get_encryption_key(hs[1])
    /\ IsDecrypt(lastCall) /\ lastCall.h = 1 /\ lastCall.ct = prevCall.ret_ct
    /\ lastCall.exc = "InvalidToken"
    /\ get_encryption_key(hs[1]) = FernetGenerateKey(hs[1].oid)

====
